---- MODULE Spec2Model ----
(***************************************************************************)
(* A model of myodine's tunnelling protocol layer: the sliding-window      *)
(* transfer state (WwrState) driven by src/myo_proto/xfer/session.rs and   *)
(* the establishment handshake of src/myo_proto/establish.rs.              *)
(***************************************************************************)
EXTENDS Integers, Sequences, FiniteSets, TLC

(***************************************************************************)
(* Bounds of the model.                                                    *)
(***************************************************************************)
\* the negotiated window (chunks in flight) of the modelled session
WindowSize == 2
\* the negotiated MTU: the most bytes one chunk carries
Mtu == 2
\* the most bytes the sender's bridge hands over in one run
MaxBytes == 3
\* the highest sequence number an arbitrary caller feeds to one transport
MaxSeq == 3
\* the most bytes held in sendBuffer when pushes are not window-guarded
MaxBuf == 2

\* the largest clock skew the server is configured with
MaxWindow == 2
\* the most sessions the server's table holds in one run
MaxSessions == 2

\* the byte values of the stream
ByteVals == {1, 2}

VARIABLES
    state,          \* the WwrState under test (the sender in Spec)
    peer,           \* the second WwrState instance (the receiver in Spec)
    net,            \* chunks produced by next_send_chunk, still deliverable
    acks,           \* acknowledgments produced by the peer's next_send_ack
    pushed,         \* every byte given to the sender, in order
    delivered,      \* concatenation of the data returned by the peer's handle_chunk
    fed,            \* the produced chunks that were fed to the peer
    disorder,       \* what the channel did so far: "dup", "reorder"
    eofSeq,         \* sequence of the zero-length chunk delivered, or -1
    heldAtEof,      \* sequences held in recvBuffer when the end of stream was delivered
    seqsAfterEof,   \* sequence numbers fed to handle_chunk after the end of stream
    retAfterEof,    \* what the handle_chunk calls after the end of stream returned
    deliveredSeqs,  \* sequence numbers of every chunk handle_chunk returned
    equery,         \* the EstablishQuery a client encodes or a proof is checked for
    serverRoot,     \* the root domain name of the server
    qname,          \* the question domain built by to_domain or received
    parsed,         \* what from_domain returned for qname
    rebuilt,        \* what to_domain returned for the parsed fields
    password,       \* the password of the server
    cur_time,       \* the epoch time of the server, in seconds
    window,         \* the clock skew the server tolerates, in seconds
    proofResult,    \* how check_proof ended: "none", "true", "false", "panic"
    query,          \* the DNS message the server is handling
    sessions,       \* the session table of the server
    response,       \* what the server did with query
    handled,        \* what the handshake saw: the parse result, the table before
    resp,           \* the EstablishResponse being encoded
    body,           \* the response body being decoded
    encoded,        \* what encoding resp returned and wrote
    answered,       \* what establish_response returned for resp
    decoded,        \* what decoding body returned and left unread
    conn,           \* the bridge (TcpChunker) of state
    peerConn,       \* the bridge (TcpChunker) of peer
    wire,           \* the packets in flight between the two endpoints
    call,           \* the last call made on state: its arguments and what it returned
    returned,       \* sequence numbers of the chunks handle_chunk returned, in order
    hdr,            \* the Header whose flags are coded
    hdrFlags,       \* what encoding hdr did: the flags word written, or the panic
    opcodeBack,     \* Opcode::decode(hdr.opcode.encode())
    rcodeBack       \* ResponseCode::decode(hdr.response_code.encode())

xferVars == <<state, peer, net, acks, pushed, delivered, fed, disorder>>
apiVars == <<eofSeq, heldAtEof, seqsAfterEof, retAfterEof, deliveredSeqs>>
codecVars == <<equery, serverRoot, qname, parsed, rebuilt>>
proofVars == <<password, cur_time, window, proofResult>>
serverVars == <<query, sessions, response, handled>>
wireVars == <<resp, body, encoded, answered, decoded>>
headerVars == <<hdr, hdrFlags, opcodeBack, rcodeBack>>
estVars == <<codecVars, proofVars, serverVars, wireVars, headerVars>>
glueVars == <<conn, peerConn, wire, call, returned>>
vars == <<xferVars, apiVars, estVars, glueVars>>

(***************************************************************************)
(* Helpers on sequences.                                                   *)
(***************************************************************************)
Max(a, b) == IF a >= b THEN a ELSE b

Min(a, b) == IF a <= b THEN a ELSE b

IsPrefix(s, t) == Len(s) <= Len(t) /\ SubSeq(t, 1, Len(s)) = s

\* all sequences over S of length lo..hi
SeqsOf(S, lo, hi) == UNION {[1..n -> S] : n \in lo..hi}

RECURSIVE Flatten(_)
\* concatenation of the data of a sequence of chunks
Flatten(chunks) ==
    IF chunks = <<>> THEN <<>> ELSE Head(chunks).data \o Flatten(Tail(chunks))

(***************************************************************************)
(* WwrState: the sliding-window transport (myo_proto::xfer::wwr).          *)
(***************************************************************************)
WwrState(win) ==
    [windowSize |-> win, sendBase |-> 0, sendNext |-> 0, sendBuffer |-> <<>>,
     recvNext |-> 0, recvBuffer |-> {}, finished |-> FALSE]

\* advance sendBase to max(sendBase, ack)
handle_ack(w, ack) == [w EXCEPT !.sendBase = Max(w.sendBase, ack)]

send_buffer_space(w) == w.windowSize - (w.sendNext - w.sendBase)

push_send_buffer(w, data) == [w EXCEPT !.sendBuffer = @ \o data]

next_send_ack(w) == w.recvNext

\* a next_send_chunk that forgets the window
has_send_chunk_nowindow(w) == Len(w.sendBuffer) > 0

\* whether next_send_chunk returns Some
has_send_chunk(w) == Len(w.sendBuffer) > 0 /\ send_buffer_space(w) > 0

\* the chunk next_send_chunk pops and the state it leaves
next_send_chunk(w) ==
    LET n == Min(Mtu, Len(w.sendBuffer)) IN
    IF has_send_chunk(w)
    THEN [chunk |-> <<[sequence |-> w.sendNext, data |-> SubSeq(w.sendBuffer, 1, n)]>>,
          state |-> [w EXCEPT !.sendBuffer = SubSeq(@, n + 1, Len(@)),
                              !.sendNext = @ + 1]]
    ELSE [chunk |-> <<>>, state |-> w]

\* recvBuffer is a sparse map: a set of chunks, at most one per sequence
buffer_store(buf, c) == {b \in buf : b.sequence # c.sequence} \cup {c}

buffer_has(buf, s) == \E b \in buf : b.sequence = s

buffer_get(buf, s) == CHOOSE b \in buf : b.sequence = s

RECURSIVE drain(_, _)
\* drain the gap-free run starting at recvNext, stopping at (and including)
\* a zero-length chunk
drain(w, out) ==
    IF ~buffer_has(w.recvBuffer, w.recvNext) THEN [state |-> w, out |-> out]
    ELSE LET c == buffer_get(w.recvBuffer, w.recvNext) IN
         IF Len(c.data) = 0
         THEN [state |-> [w EXCEPT !.recvNext = @ + 1, !.recvBuffer = {},
                                   !.finished = TRUE],
               out |-> Append(out, c)]
         ELSE drain([w EXCEPT !.recvNext = @ + 1,
                              !.recvBuffer = {b \in @ : b.sequence # c.sequence}],
                    Append(out, c))

\* a handle_chunk that hands a duplicate to the consumer again
handle_chunk_redeliver(w, c) ==
    IF w.finished THEN [state |-> w, out |-> <<>>]
    ELSE IF c.sequence < w.recvNext THEN [state |-> w, out |-> <<c>>]
    ELSE drain([w EXCEPT !.recvBuffer = buffer_store(@, c)], <<>>)

\* a handle_chunk that does not latch the end of stream
handle_chunk_nolatch(w, c) ==
    IF c.sequence < w.recvNext
    THEN [state |-> w, out |-> <<>>]
    ELSE drain([w EXCEPT !.recvBuffer = buffer_store(@, c)], <<>>)

\* a handle_chunk that takes a chunk below recvNext as the next one
handle_chunk_rewind(w, c) ==
    IF w.finished THEN [state |-> w, out |-> <<>>]
    ELSE drain([w EXCEPT !.recvBuffer = buffer_store(@, c),
                         !.recvNext = Min(@, c.sequence)], <<>>)

\* a handle_chunk that returns one chunk at most
handle_chunk_single(w, c) ==
    LET stored == [w EXCEPT !.recvBuffer = buffer_store(@, c)]
        next == buffer_get(stored.recvBuffer, w.recvNext)
    IN
    IF w.finished \/ c.sequence < w.recvNext THEN [state |-> w, out |-> <<>>]
    ELSE IF ~buffer_has(stored.recvBuffer, w.recvNext) THEN [state |-> stored, out |-> <<>>]
    ELSE IF Len(next.data) = 0
    THEN [state |-> [stored EXCEPT !.recvNext = @ + 1, !.recvBuffer = {},
                                   !.finished = TRUE],
          out |-> <<next>>]
    ELSE [state |-> [stored EXCEPT !.recvNext = @ + 1,
                                   !.recvBuffer = {b \in @ : b.sequence # next.sequence}],
          out |-> <<next>>]

handle_chunk(w, c) ==
    IF w.finished \/ c.sequence < w.recvNext
    THEN [state |-> w, out |-> <<>>]
    ELSE drain([w EXCEPT !.recvBuffer = buffer_store(@, c)], <<>>)

(***************************************************************************)
(* The session glue of xfer/session.rs.  A bridge (conn::TcpChunker) is    *)
(* the queue of byte blocks it has ready for recv, whether it accepts      *)
(* bytes, and the log of the send and send_finished calls made on it.  An  *)
(* Option is a sequence of no or one element.                              *)
(***************************************************************************)
TcpChunker(ready) == [can_send |-> ready, inbox |-> <<>>, log |-> <<>>]

can_send(c) == c.can_send

send(c, buffer) == [c EXCEPT !.log = Append(@, [op |-> "send", data |-> buffer])]

send_finished(c) == [c EXCEPT !.log = Append(@, [op |-> "send_finished", data |-> <<>>])]

\* recv: the next block the bridge has ready, if any, and the bridge it leaves
recv(c) ==
    IF c.inbox = <<>> THEN [data |-> <<>>, conn |-> c]
    ELSE [data |-> <<Head(c.inbox)>>, conn |-> [c EXCEPT !.inbox = Tail(@)]]

Packet(ack, chunk) == [ack |-> ack, chunk |-> chunk]

RECURSIVE data_before_eof(_)
\* the loop of handle_packet_in over the chunks: their data up to the first
\* zero-length chunk, where it breaks
data_before_eof(chunks) ==
    IF chunks = <<>> \/ Len(Head(chunks).data) = 0 THEN <<>>
    ELSE Head(chunks).data \o data_before_eof(Tail(chunks))

\* whether the loop of handle_packet_in meets a zero-length chunk
has_eof(chunks) == \E i \in 1..Len(chunks) : Len(chunks[i].data) = 0

\* a handle_packet_in that feeds the chunk whether or not the bridge
\* accepts bytes
handle_packet_in_eager(packet, w, c) ==
    LET acked == handle_ack(w, packet.ack)
        r == handle_chunk(acked, packet.chunk[1])
        buffer == data_before_eof(r.out)
        sent == IF Len(buffer) > 0 THEN send(c, buffer) ELSE c
    IN
    IF packet.chunk # <<>>
    THEN [state |-> r.state,
          conn |-> IF has_eof(r.out) THEN send_finished(sent) ELSE sent]
    ELSE [state |-> acked, conn |-> c]

\* a handle_packet_in that sends the data of every chunk by itself
handle_packet_in_each(packet, w, c) ==
    LET acked == handle_ack(w, packet.ack)
        r == handle_chunk(acked, packet.chunk[1])
        sent == [c EXCEPT !.log = @ \o [i \in 1..Len(r.out) |->
                                          IF Len(r.out[i].data) = 0
                                          THEN [op |-> "send_finished", data |-> <<>>]
                                          ELSE [op |-> "send", data |-> r.out[i].data]]]
    IN
    IF can_send(c) /\ packet.chunk # <<>>
    THEN [state |-> r.state, conn |-> sent]
    ELSE [state |-> acked, conn |-> c]

\* a handle_packet_in that signals the end of stream whenever it is fed a
\* zero-length chunk
handle_packet_in_resignal(packet, w, c) ==
    LET acked == handle_ack(w, packet.ack)
        r == handle_chunk(acked, packet.chunk[1])
        buffer == data_before_eof(r.out)
        sent == IF Len(buffer) > 0 THEN send(c, buffer) ELSE c
    IN
    IF can_send(c) /\ packet.chunk # <<>>
    THEN [state |-> r.state,
          conn |-> IF has_eof(r.out) \/ Len(packet.chunk[1].data) = 0
                   THEN send_finished(sent) ELSE sent]
    ELSE [state |-> acked, conn |-> c]

\* handle_packet_in: the transfer state and the bridge it leaves
handle_packet_in(packet, w, c) ==
    LET acked == handle_ack(w, packet.ack)
        r == handle_chunk(acked, packet.chunk[1])
        buffer == data_before_eof(r.out)
        sent == IF Len(buffer) > 0 THEN send(c, buffer) ELSE c
    IN
    IF can_send(c) /\ packet.chunk # <<>>
    THEN [state |-> r.state,
          conn |-> IF has_eof(r.out) THEN send_finished(sent) ELSE sent]
    ELSE [state |-> acked, conn |-> c]

RECURSIVE pull(_, _)
\* the loop of next_packet_out: while send_buffer_space() > 0, push what
\* recv returns, and break when it returns nothing
pull(w, c) ==
    IF send_buffer_space(w) > 0
    THEN LET r == recv(c) IN
         IF r.data # <<>> THEN pull(push_send_buffer(w, r.data[1]), r.conn)
         ELSE [state |-> w, conn |-> r.conn]
    ELSE [state |-> w, conn |-> c]

\* a next_packet_out that pulls one block at most
next_packet_out_one(w, c) ==
    LET r == recv(c)
        p == IF send_buffer_space(w) > 0 /\ r.data # <<>>
             THEN [state |-> push_send_buffer(w, r.data[1]), conn |-> r.conn]
             ELSE [state |-> w, conn |-> c]
        ack == next_send_ack(p.state)
        chunk == next_send_chunk(p.state)
    IN [packet |-> Packet(ack, chunk.chunk), state |-> chunk.state, conn |-> p.conn]

\* next_packet_out: the packet, the transfer state and the bridge it leaves
next_packet_out(w, c) ==
    LET p == pull(w, c)
        ack == next_send_ack(p.state)
        chunk == next_send_chunk(p.state)
    IN [packet |-> Packet(ack, chunk.chunk), state |-> chunk.state, conn |-> p.conn]

(***************************************************************************)
(* Text and numbers.  A string is a sequence of one-character strings; a   *)
(* u16 is an integer; a u64 is its sixteen hexadecimal digits (values      *)
(* 0..15, most significant first).                                         *)
(***************************************************************************)
Ok(v) == [ok |-> TRUE, val |-> v]

Err(e) == [ok |-> FALSE, err |-> e]

\* the value of a result that was not computed yet
Unset == Err("unset")

U16Max == 65535

U64Digits == 16

DecChars == <<"0", "1", "2", "3", "4", "5", "6", "7", "8", "9">>

HexChars == <<"0", "1", "2", "3", "4", "5", "6", "7", "8", "9",
              "a", "b", "c", "d", "e", "f">>

UpperChars == <<"A", "B", "C", "D", "E", "F", "G", "H", "I", "J", "K", "L", "M",
                "N", "O", "P", "Q", "R", "S", "T", "U", "V", "W", "X", "Y", "Z">>

LowerChars == <<"a", "b", "c", "d", "e", "f", "g", "h", "i", "j", "k", "l", "m",
                "n", "o", "p", "q", "r", "s", "t", "u", "v", "w", "x", "y", "z">>

IndexOf(seq, c) == CHOOSE i \in 1..Len(seq) : seq[i] = c

InSeq(seq, c) == \E i \in 1..Len(seq) : seq[i] = c

char_lowercase(c) == IF InSeq(UpperChars, c) THEN LowerChars[IndexOf(UpperChars, c)] ELSE c

\* util::domain_part_lowercase
domain_part_lowercase(part) == [i \in 1..Len(part) |-> char_lowercase(part[i])]

\* Domain equality: lowercase label-by-label match
domain_eq(a, b) ==
    /\ Len(a) = Len(b)
    /\ \A i \in 1..Len(a) : domain_part_lowercase(a[i]) = domain_part_lowercase(b[i])

\* util::domain_ends_with: the labels of host are the last labels of domain
domain_ends_with(domain, host) ==
    /\ Len(host) <= Len(domain)
    /\ domain_eq(SubSeq(domain, Len(domain) - Len(host) + 1, Len(domain)), host)

\* Domain::from_parts: a name has no empty label
domain_from_parts(parts) ==
    IF \E i \in 1..Len(parts) : parts[i] = <<>>
    THEN Err("empty domain label")
    ELSE Ok(parts)

RECURSIVE format_decimal(_)
\* format!("{}", n) of an unsigned integer
format_decimal(n) ==
    IF n < 10 THEN <<DecChars[n + 1]>>
    ELSE Append(format_decimal(n \div 10), DecChars[(n % 10) + 1])

RECURSIVE decimal_value(_, _)
\* the value of a digit string, saturating just above U16Max
decimal_value(digits, acc) ==
    IF digits = <<>> THEN acc
    ELSE decimal_value(Tail(digits),
                       Min(acc * 10 + (IndexOf(DecChars, Head(digits)) - 1), U16Max + 1))

\* str::parse::<u16>: an optional '+', then decimal digits, no overflow
parse_u16(s) ==
    LET digits == IF s # <<>> /\ s[1] = "+" THEN Tail(s) ELSE s IN
    IF digits = <<>> THEN Err("cannot parse integer from empty string")
    ELSE IF \E i \in 1..Len(digits) : ~InSeq(DecChars, digits[i])
    THEN Err("invalid digit found in string")
    ELSE IF decimal_value(digits, 0) > U16Max
    THEN Err("number too large to fit in target type")
    ELSE Ok(decimal_value(digits, 0))

RECURSIVE strip_zeros(_)
\* a digit sequence without its leading zeros
strip_zeros(digits) ==
    IF digits # <<>> /\ Head(digits) = 0 THEN strip_zeros(Tail(digits)) ELSE digits

\* the u64 with the given significant hexadecimal digits
U64(digits) == [i \in 1..(U64Digits - Len(digits)) |-> 0] \o digits

\* format!("{:x}", v) of a u64
format_hex(v) ==
    LET digits == strip_zeros(v) IN
    IF digits = <<>> THEN <<"0">>
    ELSE [i \in 1..Len(digits) |-> HexChars[digits[i] + 1]]

\* u64::from_str_radix(s, 16): an optional '+', then hexadecimal digits in
\* either case, no overflow
parse_hex_u64(s) ==
    LET chars == IF s # <<>> /\ s[1] = "+" THEN Tail(s) ELSE s
        low == domain_part_lowercase(chars)
        digits == strip_zeros([i \in 1..Len(low) |-> IndexOf(HexChars, low[i]) - 1])
    IN
    IF chars = <<>> THEN Err("cannot parse integer from empty string")
    ELSE IF \E i \in 1..Len(low) : ~InSeq(HexChars, low[i])
    THEN Err("invalid digit found in string")
    ELSE IF Len(digits) > U64Digits
    THEN Err("number too large to fit in target type")
    ELSE Ok(U64(digits))

\* labels of the names the model uses
Lraw == <<"r", "a", "w">>

Lb64 == <<"b", "6", "4">>

Lfoo == <<"f", "o", "o">>

Lbob == <<"b", "o", "b">>

Lbaz == <<"b", "a", "z">>

Lcom == <<"c", "o", "m">>

(***************************************************************************)
(* EstablishQuery (src/myo_proto/establish.rs).                            *)
(***************************************************************************)
\* derived PartialEq of EstablishQuery: strings and numbers exactly, the host
\* as a Domain
equery_eq(a, b) ==
    /\ a.response_encoding = b.response_encoding
    /\ a.mtu = b.mtu
    /\ a.name_encoding = b.name_encoding
    /\ a.query_window = b.query_window
    /\ a.response_window = b.response_window
    /\ a.proof = b.proof
    /\ a.port = b.port
    /\ domain_eq(a.host, b.host)

\* the fields from_domain reads once the label count is known to suffice
from_domain_fields(domain, host) ==
    LET response_encoding ==
            LET low == domain_part_lowercase(domain[1]) IN SubSeq(low, 2, Len(low))
        mtu == parse_u16(domain[2])
        name_encoding == domain_part_lowercase(domain[3])
        query_window == parse_u16(domain[4])
        response_window == parse_u16(domain[5])
        proof == parse_hex_u64(domain[6])
        port == parse_u16(domain[7])
        target == SubSeq(domain, 8, Len(domain) - Len(host))
    IN
    IF ~mtu.ok \/ ~query_window.ok \/ ~response_window.ok \/ ~proof.ok \/ ~port.ok
    THEN Err("invalid number in domain")
    ELSE IF ~domain_from_parts(target).ok THEN Err(domain_from_parts(target).err)
    ELSE Ok([response_encoding |-> response_encoding,
             mtu |-> mtu.val,
             name_encoding |-> name_encoding,
             query_window |-> query_window.val,
             response_window |-> response_window.val,
             proof |-> proof.val,
             port |-> port.val,
             host |-> domain_from_parts(target).val])

\* a from_domain that keeps the 'e' marker in the response encoding
from_domain_keep_marker(domain, host) ==
    IF ~domain_ends_with(domain, host) THEN Err("incorrect host domain")
    ELSE IF Len(domain) - Len(host) < 8 THEN Err("not enough labels")
    ELSE LET r == from_domain_fields(domain, host) IN
         IF ~r.ok THEN r
         ELSE Ok([r.val EXCEPT !.response_encoding = domain_part_lowercase(domain[1])])

\* a from_domain that asks for the seven fixed labels only
from_domain_seven_labels(domain, host) ==
    IF ~domain_ends_with(domain, host) THEN Err("incorrect host domain")
    ELSE IF Len(domain) - Len(host) < 7 THEN Err("not enough labels")
    ELSE from_domain_fields(domain, host)

\* EstablishQuery::from_domain
from_domain(domain, host) ==
    IF ~domain_ends_with(domain, host) THEN Err("incorrect host domain")
    ELSE IF Len(domain) - Len(host) < 8 THEN Err("not enough labels")
    ELSE from_domain_fields(domain, host)

\* EstablishQuery::to_domain
to_domain(q, host) ==
    domain_from_parts(
        << <<"e">> \o q.response_encoding,
           format_decimal(q.mtu),
           q.name_encoding,
           format_decimal(q.query_window),
           format_decimal(q.response_window),
           format_hex(q.proof),
           format_decimal(q.port) >>
        \o q.host \o host)

(***************************************************************************)
(* The password proof.  cur_time and window are u64 in the source; the     *)
(* model keeps the wrapping arithmetic and scales the word to TimeBits     *)
(* bits.                                                                   *)
(***************************************************************************)
TimeBits == 4

TimeMod == 2 ^ TimeBits

\* the characters a digest is computed over
DigestChars == DecChars \o LowerChars

RECURSIVE digest(_, _)
\* Sha1 of a message, abstracted to a digest of eight bits
digest(msg, acc) ==
    IF msg = <<>> THEN acc
    ELSE digest(Tail(msg), (acc * 31 + IndexOf(DigestChars, Head(msg)) + 7) % 256)

\* password_proof: the leading bytes of the digest of password, time, password
password_proof(pw, time) ==
    LET hash == digest(pw \o format_decimal(time) \o pw, 5) IN
    U64(<<hash \div 16, hash % 16>>)

\* the body of the loop of check_proof over the range lo..hi (hi excluded)
proof_in_range(q, pw, lo, hi) ==
    \E i \in lo..(hi - 1) : q.proof = password_proof(pw, i)

bool_outcome(b) == IF b THEN "true" ELSE "false"

\* a check_proof whose range includes its upper bound
check_proof_inclusive(q, pw, time, win) ==
    IF time - win < 0 \/ time + win >= TimeMod
    THEN {"panic",
          bool_outcome(proof_in_range(q, pw, (time - win) % TimeMod,
                                      ((time + win) % TimeMod) + 1))}
    ELSE {bool_outcome(proof_in_range(q, pw, time - win, time + win + 1))}

\* EstablishQuery::check_proof: the outcomes the builds of the program
\* produce.  With overflow checks an overflowing bound panics; without them
\* it wraps.
check_proof(q, pw, time, win) ==
    IF time - win < 0 \/ time + win >= TimeMod
    THEN {"panic",
          bool_outcome(proof_in_range(q, pw, (time - win) % TimeMod,
                                      (time + win) % TimeMod))}
    ELSE {bool_outcome(proof_in_range(q, pw, time - win, time + win))}

(***************************************************************************)
(* EstablishResponse and its wire coding.  A String is the sequence of its *)
(* code points; a packet is a sequence of bytes.                           *)
(***************************************************************************)
\* the code points of the messages of the handshake
String(text) ==
    CASE text = "not an establish query" ->
            <<110, 111, 116, 32, 97, 110, 32, 101, 115, 116, 97, 98, 108, 105, 115, 104, 32, 113, 117, 101, 114, 121>>
      [] text = "incorrect host domain" ->
            <<105, 110, 99, 111, 114, 114, 101, 99, 116, 32, 104, 111, 115, 116, 32, 100, 111, 109, 97, 105, 110>>
      [] text = "not enough labels" ->
            <<110, 111, 116, 32, 101, 110, 111, 117, 103, 104, 32, 108, 97, 98, 101, 108, 115>>
      [] text = "invalid number in domain" ->
            <<105, 110, 118, 97, 108, 105, 100, 32, 110, 117, 109, 98, 101, 114, 32, 105, 110, 32, 100, 111, 109, 97, 105, 110>>
      [] text = "empty domain label" ->
            <<101, 109, 112, 116, 121, 32, 100, 111, 109, 97, 105, 110, 32, 108, 97, 98, 101, 108>>
      [] text = "bad proof" ->
            <<98, 97, 100, 32, 112, 114, 111, 111, 102>>

Success(id, seq) == [tag |-> "Success", id |-> id, seq |-> seq]

Failure(message) == [tag |-> "Failure", message |-> message]

Unknown(code) == [tag |-> "Unknown", code |-> code]

\* U+FFFD, the replacement character of String::from_utf8_lossy
ReplacementChar == 65533

RECURSIVE be_bytes(_, _)
\* the n big-endian bytes of an unsigned integer
be_bytes(v, n) ==
    IF n = 0 THEN <<>> ELSE Append(be_bytes(v \div 256, n - 1), v % 256)

RECURSIVE be_value(_, _)
be_value(bytes, acc) ==
    IF bytes = <<>> THEN acc ELSE be_value(Tail(bytes), acc * 256 + Head(bytes))

\* DecPacket::read_bytes
read_bytes(packet, n) ==
    IF Len(packet) < n THEN [ok |-> FALSE, err |-> "buffer underflow", rest |-> packet]
    ELSE [ok |-> TRUE, val |-> SubSeq(packet, 1, n), rest |-> SubSeq(packet, n + 1, Len(packet))]

\* String::as_bytes of code points below 128 and of U+FFFD
utf8_bytes(c) == IF c = ReplacementChar THEN <<239, 191, 189>> ELSE <<c>>

RECURSIVE as_bytes(_)
as_bytes(str) == IF str = <<>> THEN <<>> ELSE utf8_bytes(Head(str)) \o as_bytes(Tail(str))

\* String::from_utf8_lossy of bytes below 128 and of 255, a byte no UTF-8
\* sequence holds
from_utf8_lossy(raw) == [i \in 1..Len(raw) |-> IF raw[i] < 128 THEN raw[i] ELSE ReplacementChar]

\* an encoder of EstablishResponse with a tag of its own for Unknown
dns_encode_tagged(r, packet) ==
    CASE r.tag = "Success" ->
            [ok |-> TRUE, packet |-> packet \o <<0>> \o be_bytes(r.id, 2) \o be_bytes(r.seq, 4)]
      [] r.tag = "Failure" ->
            [ok |-> TRUE, packet |-> packet \o <<1>> \o as_bytes(r.message)]
      [] r.tag = "Unknown" ->
            [ok |-> TRUE, packet |-> packet \o <<r.code>>]

\* impl Encoder for EstablishResponse: the result and the packet it leaves
dns_encode(r, packet) ==
    CASE r.tag = "Success" ->
            [ok |-> TRUE, packet |-> packet \o <<0>> \o be_bytes(r.id, 2) \o be_bytes(r.seq, 4)]
      [] r.tag = "Failure" ->
            [ok |-> TRUE, packet |-> packet \o <<1>> \o as_bytes(r.message)]
      [] r.tag = "Unknown" ->
            [ok |-> FALSE, err |-> "cannot encode unknown establish response",
             packet |-> packet]

\* impl Decoder for EstablishResponse: the result and the bytes left unread
dns_decode(packet) ==
    LET tag == read_bytes(packet, 1) IN
    IF ~tag.ok THEN [ok |-> FALSE, err |-> tag.err, rest |-> packet]
    ELSE IF tag.val[1] = 0
    THEN LET id == read_bytes(tag.rest, 2)
             seq == read_bytes(id.rest, 4)
         IN IF ~id.ok THEN [ok |-> FALSE, err |-> id.err, rest |-> id.rest]
            ELSE IF ~seq.ok THEN [ok |-> FALSE, err |-> seq.err, rest |-> seq.rest]
            ELSE [ok |-> TRUE, val |-> Success(be_value(id.val, 0), be_value(seq.val, 0)),
                  rest |-> seq.rest]
    ELSE IF tag.val[1] = 1
    THEN [ok |-> TRUE, val |-> Failure(from_utf8_lossy(tag.rest)), rest |-> <<>>]
    ELSE [ok |-> TRUE, val |-> Unknown(tag.val[1]), rest |-> <<>>]

(***************************************************************************)
(* DNS messages and establish_response.                                    *)
(***************************************************************************)
\* util::is_api_query: the first label of the first question starts with
\* the marker, in either case
is_api_query(q, marker) ==
    /\ q.questions # <<>>
    /\ q.questions[1].domain # <<>>
    /\ q.questions[1].domain[1] # <<>>
    /\ char_lowercase(q.questions[1].domain[1][1]) = marker

is_establish_query(q) == is_api_query(q, "e")

\* EstablishQuery::from_query
from_query(q, root) ==
    IF ~is_establish_query(q) THEN Err("not an establish query")
    ELSE from_domain(q.questions[1].domain, root)

\* the registry of record codes: the (record type, encoding) pairs it holds
RecordCodes == {<<"TXT", Lraw>>}

get_record_code(record_type, encoding) ==
    IF <<record_type, encoding>> \in RecordCodes
    THEN Ok(<<record_type, encoding>>)
    ELSE Err("none")

\* RecordCode::encode_body and decode_body of the raw code
encode_body(code, bytes) == Ok(bytes)

decode_body(code, bytes) == Ok(bytes)

\* the answer record establish_response appends
answer_record(question, rbody) ==
    [header |-> [domain |-> question.domain,
                 record_type |-> question.record_type,
                 record_class |-> question.record_class,
                 ttl |-> 0],
     body |-> rbody]

\* an establish_response that replaces the answers of the query
establish_response_replace(q, root, r) ==
    LET eq == from_query(q, root)
        question == q.questions[1]
        code == get_record_code(question.record_type, eq.val.response_encoding)
        enc == dns_encode(r, <<>>)
        rbody == encode_body(code.val, enc.packet)
    IN
    IF ~eq.ok THEN Err(eq.err)
    ELSE IF ~code.ok THEN Err("no response encoding")
    ELSE IF ~enc.ok THEN Err(enc.err)
    ELSE IF ~rbody.ok THEN Err(rbody.err)
    ELSE Ok([q EXCEPT !.answers = <<answer_record(question, rbody.val)>>,
                      !.header.answer_count = 1,
                      !.header.is_response = TRUE])

\* an establish_response that falls back to the raw code when the registry
\* has none for the question
establish_response_fallback(q, root, r) ==
    LET eq == from_query(q, root)
        question == q.questions[1]
        code == get_record_code(question.record_type, eq.val.response_encoding)
        enc == dns_encode(r, <<>>)
        rbody == encode_body(<<"TXT", Lraw>>, enc.packet)
    IN
    IF ~eq.ok THEN Err(eq.err)
    ELSE IF ~enc.ok THEN Err(enc.err)
    ELSE IF ~rbody.ok THEN Err(rbody.err)
    ELSE Ok([q EXCEPT !.answers = Append(@, answer_record(question, rbody.val)),
                      !.header.answer_count = 1,
                      !.header.is_response = TRUE])

\* establish_response
establish_response(q, root, r) ==
    LET eq == from_query(q, root)
        question == q.questions[1]
        code == get_record_code(question.record_type, eq.val.response_encoding)
        enc == dns_encode(r, <<>>)
        rbody == encode_body(code.val, enc.packet)
    IN
    IF ~eq.ok THEN Err(eq.err)
    ELSE IF ~code.ok THEN Err("no response encoding")
    ELSE IF ~enc.ok THEN Err(enc.err)
    ELSE IF ~rbody.ok THEN Err(rbody.err)
    ELSE Ok([q EXCEPT !.answers = Append(@, answer_record(question, rbody.val)),
                      !.header.answer_count = 1,
                      !.header.is_response = TRUE])

\* the header coding while it is not part of the run
HeaderIdle ==
    /\ hdr = Unset /\ hdrFlags = Unset
    /\ opcodeBack = Unset /\ rcodeBack = Unset

\* the establish-side variables while only the transport runs
EstIdle ==
    /\ equery = Unset /\ serverRoot = <<>> /\ qname = Unset
    /\ parsed = Unset /\ rebuilt = Unset
    /\ password = <<>> /\ cur_time = 0 /\ window = 0 /\ proofResult = "none"
    /\ query = Unset /\ sessions = {} /\ response = Unset /\ handled = Unset
    /\ resp = Unset /\ body = Unset
    /\ encoded = Unset /\ answered = Unset /\ decoded = Unset
    /\ HeaderIdle

\* the session glue while it is not part of the run
GlueIdle ==
    /\ conn = Unset /\ peerConn = Unset /\ wire = {}
    /\ call = Unset /\ returned = <<>>

\* the transport variables while only the handshake runs
XferIdle ==
    /\ GlueIdle
    /\ state = Unset /\ peer = Unset
    /\ net = {} /\ acks = {}
    /\ pushed = <<>> /\ delivered = <<>>
    /\ fed = {} /\ disorder = {}
    /\ eofSeq = -1 /\ heldAtEof = {} /\ seqsAfterEof = {}
    /\ retAfterEof = {} /\ deliveredSeqs = {}

(***************************************************************************)
(* Spec: a sender transport and a receiver transport joined by a channel   *)
(* that reorders and duplicates chunks and acknowledgments.                *)
(***************************************************************************)
ApiIdle ==
    /\ eofSeq = -1 /\ heldAtEof = {} /\ seqsAfterEof = {}
    /\ retAfterEof = {} /\ deliveredSeqs = {}

Init ==
    /\ state = WwrState(WindowSize)
    /\ peer = WwrState(WindowSize)
    /\ net = {} /\ acks = {}
    /\ pushed = <<>> /\ delivered = <<>>
    /\ fed = {} /\ disorder = {}
    /\ ApiIdle
    /\ GlueIdle
    /\ EstIdle

\* the caller checks send_buffer_space() > 0 before it pushes
PushSendBuffer ==
    /\ send_buffer_space(state) > 0
    /\ \E data \in SeqsOf(ByteVals, 1, Mtu) :
          /\ Len(pushed) + Len(data) <= MaxBytes
          /\ state' = push_send_buffer(state, data)
          /\ pushed' = pushed \o data
    /\ UNCHANGED <<peer, net, acks, delivered, fed, disorder>>
    /\ UNCHANGED <<apiVars, glueVars, estVars>>

NextSendChunk ==
    /\ has_send_chunk(state)
    /\ state' = next_send_chunk(state).state
    /\ net' = net \cup {next_send_chunk(state).chunk[1]}
    /\ UNCHANGED <<peer, acks, pushed, delivered, fed, disorder>>
    /\ UNCHANGED <<apiVars, glueVars, estVars>>

NextSendAck ==
    /\ acks' = acks \cup {next_send_ack(peer)}
    /\ UNCHANGED <<state, peer, net, pushed, delivered, fed, disorder>>
    /\ UNCHANGED <<apiVars, glueVars, estVars>>

HandleAck ==
    /\ \E a \in acks : state' = handle_ack(state, a)
    /\ UNCHANGED <<peer, net, acks, pushed, delivered, fed, disorder>>
    /\ UNCHANGED <<apiVars, glueVars, estVars>>

HandleChunk ==
    /\ \E c \in net :
          LET r == handle_chunk(peer, c) IN
          /\ peer' = r.state
          /\ delivered' = delivered \o Flatten(r.out)
          /\ fed' = fed \cup {c}
          /\ disorder' = disorder
                \cup (IF c \in fed THEN {"dup"} ELSE {})
                \cup (IF c.sequence > peer.recvNext THEN {"reorder"} ELSE {})
    /\ UNCHANGED <<state, net, acks, pushed>>
    /\ UNCHANGED <<apiVars, glueVars, estVars>>

Next ==
    \/ PushSendBuffer
    \/ NextSendChunk
    \/ NextSendAck
    \/ HandleAck
    \/ HandleChunk

Spec == Init /\ [][Next]_vars

(***************************************************************************)
(* ApiSpec: one transport whose operations are called in any order with    *)
(* arbitrary acknowledgments and chunks.                                   *)
(***************************************************************************)
\* the chunks an arbitrary caller feeds: any sequence, data or end of stream
ApiChunks == [sequence : 0..MaxSeq, data : {<<>>, <<1>>}]

ApiInit == Init

ApiPushSendBuffer ==
    /\ \E data \in SeqsOf(ByteVals, 1, Mtu) :
          /\ Len(state.sendBuffer) + Len(data) <= MaxBuf
          /\ state' = push_send_buffer(state, data)
    /\ UNCHANGED <<peer, net, acks, pushed, delivered, fed, disorder>>
    /\ UNCHANGED <<apiVars, glueVars, estVars>>

ApiNextSendChunk ==
    /\ state.sendNext < MaxSeq
    /\ state' = next_send_chunk(state).state
    /\ UNCHANGED <<peer, net, acks, pushed, delivered, fed, disorder>>
    /\ UNCHANGED <<apiVars, glueVars, estVars>>

ApiHandleAck ==
    /\ \E a \in 0..(MaxSeq + 1) : state' = handle_ack(state, a)
    /\ UNCHANGED <<peer, net, acks, pushed, delivered, fed, disorder>>
    /\ UNCHANGED <<apiVars, glueVars, estVars>>

ApiHandleChunk ==
    /\ \E c \in ApiChunks :
          LET r == handle_chunk(state, c)
              eof == {x \in 1..Len(r.out) : Len(r.out[x].data) = 0}
          IN
          /\ state' = r.state
          /\ deliveredSeqs' = deliveredSeqs \cup {r.out[x].sequence : x \in 1..Len(r.out)}
          /\ IF eofSeq # -1
             THEN /\ seqsAfterEof' = seqsAfterEof \cup {c.sequence}
                  /\ retAfterEof' = retAfterEof \cup {r.out}
                  /\ UNCHANGED <<eofSeq, heldAtEof>>
             ELSE /\ eofSeq' = IF eof = {} THEN -1
                                ELSE r.out[CHOOSE x \in eof : TRUE].sequence
                  /\ heldAtEof' = IF eof = {} THEN {}
                                   ELSE {b.sequence : b \in state.recvBuffer}
                  /\ UNCHANGED <<seqsAfterEof, retAfterEof>>
    /\ UNCHANGED <<peer, net, acks, pushed, delivered, fed, disorder>>
    /\ UNCHANGED <<glueVars, estVars>>

ApiNext ==
    \/ ApiPushSendBuffer
    \/ ApiNextSendChunk
    \/ ApiHandleAck
    \/ ApiHandleChunk

ApiSpec == ApiInit /\ [][ApiNext]_vars

(***************************************************************************)
(* SessionSpec: one endpoint of a session.  Packets with any               *)
(* acknowledgment and chunk arrive at handle_packet_in, next_packet_out is *)
(* polled, and the bridge gets blocks ready and starts and stops           *)
(* accepting bytes.                                                        *)
(***************************************************************************)
SessAcks == {0, WindowSize}

SessChunks == [sequence : 0..WindowSize, data : {<<>>, <<1>>}]

\* the packets that arrive: any acknowledgment, with or without a chunk
SessPackets == {Packet(a, ch) : a \in SessAcks, ch \in {<<>>} \cup {<<c>> : c \in SessChunks}}

\* the block the bridge reads from its TCP connection when it has queued
\* bytes: successive blocks differ
SessBlock(queued) == <<1 + (queued % 2)>>

\* the bytes of a sequence of blocks
RECURSIVE BlockData(_)
BlockData(blocks) ==
    IF blocks = <<>> THEN <<>> ELSE Head(blocks) \o BlockData(Tail(blocks))

\* the number of bytes in a sequence of blocks
RECURSIVE BlockBytes(_)
BlockBytes(blocks) ==
    IF blocks = <<>> THEN 0 ELSE Len(Head(blocks)) + BlockBytes(Tail(blocks))

\* the record of a call: the packet it was given or returned, and whether
\* the bridge accepted bytes and the stream had finished when it was made
Call(op, packet) ==
    [op |-> op, packet |-> packet, ready |-> conn.can_send, finished |-> state.finished]

SessionInit ==
    /\ state = WwrState(WindowSize)
    /\ peer = Unset
    /\ net = {} /\ acks = {}
    /\ pushed = <<>> /\ delivered = <<>>
    /\ fed = {} /\ disorder = {}
    /\ ApiIdle
    /\ EstIdle
    /\ conn = TcpChunker(TRUE)
    /\ peerConn = Unset /\ wire = {}
    /\ call = Unset /\ returned = <<>>

\* handle_packet_in is called with a packet
HandlePacket(packet) ==
    /\ call' = Call("handle_packet_in", packet)
    /\ LET r == handle_packet_in(packet, state, conn) IN
          /\ state' = r.state
          /\ conn' = r.conn
    /\ UNCHANGED <<peer, net, acks, pushed, delivered, fed, disorder>>
    /\ UNCHANGED <<peerConn, wire, returned>>
    /\ UNCHANGED <<apiVars, estVars>>

\* a packet arrives
HandlePacketIn == \E packet \in SessPackets : HandlePacket(packet)

\* the endpoint is asked for its next packet
NextPacketOut ==
    /\ state.sendNext < MaxSeq
    /\ LET r == next_packet_out(state, conn) IN
          /\ state' = r.state
          /\ conn' = r.conn
          /\ call' = Call("next_packet_out", r.packet)
    /\ UNCHANGED <<peer, net, acks, pushed, delivered, fed, disorder>>
    /\ UNCHANGED <<peerConn, wire, returned>>
    /\ UNCHANGED <<apiVars, estVars>>

\* the bridge has read a block from its TCP connection
BridgeData ==
    /\ LET queued == Len(state.sendBuffer) + BlockBytes(conn.inbox) IN
          /\ queued < MaxBuf
          /\ conn' = [conn EXCEPT !.inbox = Append(@, SessBlock(queued))]
    /\ UNCHANGED <<state, peer, net, acks, pushed, delivered, fed, disorder>>
    /\ UNCHANGED <<peerConn, wire, call, returned>>
    /\ UNCHANGED <<apiVars, estVars>>

\* the bridge starts or stops accepting bytes
BridgeReady ==
    /\ conn' = [conn EXCEPT !.can_send = ~@]
    /\ UNCHANGED <<state, peer, net, acks, pushed, delivered, fed, disorder>>
    /\ UNCHANGED <<peerConn, wire, call, returned>>
    /\ UNCHANGED <<apiVars, estVars>>

SessionNext ==
    \/ HandlePacketIn
    \/ NextPacketOut
    \/ BridgeData
    \/ BridgeReady

SessionSpec == SessionInit /\ [][SessionNext]_vars

(***************************************************************************)
(* RecvSpec: the receive side of one transport, fed chunks of any          *)
(* sequence number and data in any order.                                  *)
(***************************************************************************)
RecvChunks == [sequence : 0..MaxSeq, data : {<<>>, <<1>>, <<2>>}]

RecvInit ==
    /\ state = WwrState(WindowSize)
    /\ peer = Unset
    /\ net = {} /\ acks = {}
    /\ pushed = <<>> /\ delivered = <<>>
    /\ fed = {} /\ disorder = {}
    /\ ApiIdle
    /\ EstIdle
    /\ conn = Unset /\ peerConn = Unset /\ wire = {}
    /\ call = Unset /\ returned = <<>>

\* handle_chunk is called with a chunk
RecvHandleChunk ==
    /\ \E c \in RecvChunks :
          LET r == handle_chunk(state, c) IN
          /\ state' = r.state
          /\ call' = [op |-> "handle_chunk", chunk |-> c, pre |-> state, out |-> r.out]
          /\ returned' = returned \o [i \in 1..Len(r.out) |-> r.out[i].sequence]
    /\ UNCHANGED <<peer, net, acks, pushed, delivered, fed, disorder>>
    /\ UNCHANGED <<conn, peerConn, wire>>
    /\ UNCHANGED <<apiVars, estVars>>

RecvNext == RecvHandleChunk

RecvSpec == RecvInit /\ [][RecvNext]_vars

(***************************************************************************)
(* LinkSpec: the two endpoints of a session.  The client polls: it sends   *)
(* the packet of next_packet_out as a query; the server handles a query    *)
(* with handle_packet_in and answers with the packet of next_packet_out;   *)
(* the client handles the answer with handle_packet_in.  The channel       *)
(* loses, duplicates and reorders packets.  Both bridges accept bytes at   *)
(* all times.                                                              *)
(***************************************************************************)
\* the streams handed to the client's bridge: blocks of bytes and, last,
\* the empty block of the end of the stream
LinkStreams == {<< <<1>>, <<2>>, <<>> >>, << <<1, 2>>, <<1>>, <<>> >>}

\* the most packets in flight in one direction
MaxInFlight == 2

InFlight(to) == {m \in wire : m.to = to}

LinkInit ==
    /\ state = WwrState(WindowSize)
    /\ peer = WwrState(WindowSize)
    /\ net = {} /\ acks = {}
    /\ delivered = <<>>
    /\ fed = {} /\ disorder = {}
    /\ ApiIdle
    /\ EstIdle
    /\ \E stream \in LinkStreams :
          /\ conn = [TcpChunker(TRUE) EXCEPT !.inbox = stream]
          /\ pushed = BlockData(stream)
    /\ peerConn = TcpChunker(TRUE)
    /\ wire = {}
    /\ call = Unset /\ returned = <<>>

\* the client polls: next_packet_out, sent as a query
ClientPoll ==
    /\ Cardinality(InFlight("server")) < MaxInFlight
    /\ LET r == next_packet_out(state, conn) IN
          /\ state' = r.state
          /\ conn' = r.conn
          /\ wire' = wire \cup {[to |-> "server", packet |-> r.packet]}
    /\ UNCHANGED <<peer, net, acks, pushed, delivered, fed, disorder>>
    /\ UNCHANGED <<peerConn, call, returned>>
    /\ UNCHANGED <<apiVars, estVars>>

\* a query reaches the server, once or as a copy: handle_packet_in, then
\* the answer of next_packet_out
ServerExchange ==
    /\ Cardinality(InFlight("client")) < MaxInFlight
    /\ \E m \in InFlight("server") : \E left \in {{}, {m}} :
          LET in == handle_packet_in(m.packet, peer, peerConn)
              out == next_packet_out(in.state, in.conn)
          IN
          /\ peer' = out.state
          /\ peerConn' = out.conn
          /\ wire' = ((wire \ {m}) \cup left) \cup {[to |-> "client", packet |-> out.packet]}
    /\ UNCHANGED <<state, net, acks, pushed, delivered, fed, disorder>>
    /\ UNCHANGED <<conn, call, returned>>
    /\ UNCHANGED <<apiVars, estVars>>

\* an answer reaches the client, once or as a copy: handle_packet_in
ClientReceive ==
    /\ \E m \in InFlight("client") : \E left \in {{}, {m}} :
          LET in == handle_packet_in(m.packet, state, conn) IN
          /\ state' = in.state
          /\ conn' = in.conn
          /\ wire' = (wire \ {m}) \cup left
    /\ UNCHANGED <<peer, net, acks, pushed, delivered, fed, disorder>>
    /\ UNCHANGED <<peerConn, call, returned>>
    /\ UNCHANGED <<apiVars, estVars>>

\* the channel loses a packet
Lose ==
    /\ \E m \in wire : wire' = wire \ {m}
    /\ UNCHANGED <<state, peer, net, acks, pushed, delivered, fed, disorder>>
    /\ UNCHANGED <<conn, peerConn, call, returned>>
    /\ UNCHANGED <<apiVars, estVars>>

LinkNext ==
    \/ ClientPoll
    \/ ServerExchange
    \/ ClientReceive
    \/ Lose

\* the client keeps polling, and of the packets in flight in either
\* direction one is delivered again and again
LinkFairness ==
    /\ WF_vars(ClientPoll)
    /\ SF_vars(ServerExchange)
    /\ SF_vars(ClientReceive)

LinkSpec == LinkInit /\ [][LinkNext]_vars /\ LinkFairness

(***************************************************************************)
(* CodecSpec: to_domain and from_domain applied to bounded inputs.         *)
(***************************************************************************)
\* 0x913379, the proof of the repository's tests
TestProof == U64(<<9, 1, 3, 3, 7, 9>>)

\* the query of tests::query_encoding
TestQuery ==
    [response_encoding |-> Lraw, mtu |-> 123, name_encoding |-> Lb64,
     query_window |-> 64, response_window |-> 32, proof |-> TestProof,
     port |-> 1337, host |-> <<Lfoo, Lbob, Lcom>>]

CodecRoots == {<<Lbaz, Lcom>>, <<Lcom>>}

\* the queries to_domain is given
CodecQueries ==
    [response_encoding : {Lraw, <<"R", "a", "w">>, <<>>},
     mtu : {0, 123, U16Max},
     name_encoding : {Lb64, <<"B", "6", "4">>, <<>>},
     query_window : {64},
     response_window : {0, 32},
     proof : {U64(<<>>), TestProof, U64(<<10, 0>>), [i \in 1..U64Digits |-> 15]},
     port : {1337},
     host : {<<Lfoo>>, <<Lfoo, Lbob, Lcom>>, <<<<"F", "o", "o">>, Lcom>>, <<>>}]

\* the labels of malformed and well-formed question domains
RawFirst == {<<"e">> \o Lraw, <<"E", "R", "A", "W">>}

RawU16 == {<<"1", "2", "3">>, <<"+", "5">>, <<"6", "5", "5", "3", "6">>, <<"x">>}

RawProof == {<<"9", "1", "3", "3", "7", "9">>, <<"F", "f">>, <<"g">>,
             [i \in 1..(U64Digits + 1) |-> "1"]}

RawHosts == {<<>>, <<Lfoo>>, <<Lfoo, Lbob>>}

\* the endings of a question domain: the root, the root in another case,
\* another name, nothing
RawSuffixes(host) ==
    {host, [i \in 1..Len(host) |-> <<"C", "o", "M">>], <<Lbob>>, <<>>}

\* the question domains from_domain is given: the seven fixed labels or the
\* first k of them, the target host, an ending
CodecDomains(host) ==
    {SubSeq(<<first, mtu, Lb64, <<"6", "4">>, <<"3", "2">>, proof, port>>, 1, k) \o target \o suffix :
        first \in RawFirst, mtu \in RawU16, proof \in RawProof,
        port \in {<<"8", "0">>, <<"-", "1">>}, k \in {6, 7},
        target \in RawHosts, suffix \in RawSuffixes(host)}

CodecInit ==
    /\ XferIdle
    /\ HeaderIdle
    /\ password = <<>> /\ cur_time = 0 /\ window = 0 /\ proofResult = "none"
    /\ query = Unset /\ sessions = {} /\ response = Unset /\ handled = Unset
    /\ resp = Unset /\ body = Unset
    /\ encoded = Unset /\ answered = Unset /\ decoded = Unset
    /\ serverRoot \in CodecRoots
    /\ \/ equery \in CodecQueries /\ qname = Unset
       \/ equery = Unset /\ qname \in {Ok(d) : d \in CodecDomains(serverRoot)}
    /\ parsed = Unset
    /\ rebuilt = Unset

\* the client builds the question domain of its query
ToDomain ==
    /\ equery # Unset /\ qname = Unset
    /\ qname' = to_domain(equery, serverRoot)
    /\ UNCHANGED <<equery, serverRoot, parsed, rebuilt>>
    /\ UNCHANGED <<xferVars, apiVars, glueVars, headerVars, proofVars, serverVars, wireVars>>

\* the server parses a question domain
FromDomain ==
    /\ qname.ok /\ parsed = Unset
    /\ parsed' = from_domain(qname.val, serverRoot)
    /\ UNCHANGED <<equery, serverRoot, qname, rebuilt>>
    /\ UNCHANGED <<xferVars, apiVars, glueVars, headerVars, proofVars, serverVars, wireVars>>

\* the parsed fields are encoded again
Rebuild ==
    /\ parsed.ok /\ rebuilt = Unset
    /\ rebuilt' = to_domain(parsed.val, serverRoot)
    /\ UNCHANGED <<equery, serverRoot, qname, parsed>>
    /\ UNCHANGED <<xferVars, apiVars, glueVars, headerVars, proofVars, serverVars, wireVars>>

CodecNext ==
    \/ ToDomain
    \/ FromDomain
    \/ Rebuild

CodecSpec == CodecInit /\ [][CodecNext]_vars

(***************************************************************************)
(* ProofSpec: check_proof applied to bounded inputs.                       *)
(***************************************************************************)
Passwords == {<<"p">>, <<"q">>}

\* the proofs a query carries: those of every password and time, and one of
\* no password
ProofValues ==
    {password_proof(pw, t) : pw \in Passwords, t \in 0..(TimeMod - 1)} \cup {TestProof}

ProofInit ==
    /\ XferIdle
    /\ HeaderIdle
    /\ equery \in {[TestQuery EXCEPT !.proof = pr] : pr \in ProofValues}
    /\ serverRoot = <<>> /\ qname = Unset /\ parsed = Unset /\ rebuilt = Unset
    /\ password \in Passwords
    /\ cur_time \in 0..(TimeMod - 1)
    /\ window \in 0..MaxWindow
    /\ proofResult = "none"
    /\ query = Unset /\ sessions = {} /\ response = Unset /\ handled = Unset
    /\ resp = Unset /\ body = Unset
    /\ encoded = Unset /\ answered = Unset /\ decoded = Unset

CheckProof ==
    /\ proofResult = "none"
    /\ proofResult' \in check_proof(equery, password, cur_time, window)
    /\ UNCHANGED <<password, cur_time, window>>
    /\ UNCHANGED <<xferVars, apiVars, glueVars, headerVars, codecVars, serverVars, wireVars>>

ProofNext == CheckProof

ProofSpec == ProofInit /\ [][ProofNext]_vars

(***************************************************************************)
(* ServerSpec: the establishment handshake of the server.                  *)
(***************************************************************************)
ServerRoot == <<Lbaz, Lcom>>

ServerPassword == <<"p">>

\* the proofs of the queries the server receives: right for some times,
\* of another password, of no password
ServerProofs ==
    {password_proof(ServerPassword, t) : t \in {0, 1, 2, TimeMod - 1}}
        \cup {password_proof(<<"q">>, 0), TestProof}

\* the question domains the server receives: well-formed ones with a known
\* and an unknown response encoding, one in uppercase, and malformed ones
ServerDomains ==
    {to_domain([TestQuery EXCEPT !.proof = pr, !.response_encoding = enc], ServerRoot).val :
        pr \in ServerProofs, enc \in {Lraw, <<"z">>}}
    \cup {<< <<"E", "R", "A", "W">>, <<"1">>, Lb64, <<"1">>, <<"1">>,
             format_hex(password_proof(ServerPassword, 1)), <<"1">>, Lfoo >> \o ServerRoot,
          << <<"e">> \o Lraw, <<"x">>, Lb64, <<"1">>, <<"1">>, <<"1">>, <<"1">>, Lfoo >> \o ServerRoot,
          << <<"e">> \o Lraw, <<"1">>, Lb64, <<"1">>, <<"1">>, <<"1">>, <<"1">> >> \o ServerRoot,
          << <<"e">> \o Lraw, <<"1">>, Lb64, <<"1">>, <<"1">>, <<"1">>, <<"1">>, Lfoo, Lbob >>,
          << <<"e">>, <<"x">>, Lb64, <<"1">>, <<"1">>, <<"1">>, <<"1">>, Lfoo >> \o ServerRoot,
          << <<"t">> \o Lraw, <<"1">>, Lb64, <<"1">>, <<"1">>, <<"1">>, <<"1">>, Lfoo >> \o ServerRoot}

QueryHeader(answer_count) ==
    [identifier |-> 7, is_response |-> FALSE, opcode |-> "Query",
     authoritative |-> FALSE, truncated |-> FALSE,
     recursion_desired |-> TRUE, recursion_available |-> FALSE,
     response_code |-> "NoError",
     question_count |-> 1, answer_count |-> answer_count,
     authority_count |-> 0, additional_count |-> 0]

\* a record a query may already carry in its answer section
OtherRecord ==
    [header |-> [domain |-> <<Lbob>>, record_type |-> "A", record_class |-> "IN", ttl |-> 60],
     body |-> <<127, 0, 0, 1>>]

Message(d, record_type, answers) ==
    [header |-> QueryHeader(2 * Len(answers)),
     questions |-> << [domain |-> d, record_type |-> record_type, record_class |-> "IN"] >>,
     answers |-> answers]

ServerQueries ==
    {Message(d, t, a) : d \in ServerDomains, t \in {"TXT", "A"}, a \in {<<>>, <<OtherRecord>>}}

\* the times at which queries arrive: early ones, around the proofs of the
\* queries, and the last second of the clock
ServerTimes == {0, 1, 2, 3, TimeMod - 1}

\* the first sequence numbers the server hands out
StartSeqs == {0, 1}

Answer(m) == [kind |-> "answer", message |-> m]

Dropped == [kind |-> "dropped"]

Panicked == [kind |-> "panic"]

\* the response to send, or none when establish_response fails
answer_or_drop(r) == IF r.ok THEN Answer(r.val) ELSE Dropped

ServerInit ==
    /\ XferIdle
    /\ HeaderIdle
    /\ equery = Unset /\ qname = Unset /\ parsed = Unset /\ rebuilt = Unset
    /\ serverRoot = ServerRoot
    /\ password = ServerPassword
    /\ cur_time = 0
    /\ window \in 0..MaxWindow
    /\ proofResult = "none"
    /\ query = Unset /\ sessions = {} /\ response = Unset /\ handled = Unset
    /\ resp = Unset /\ body = Unset
    /\ encoded = Unset /\ answered = Unset /\ decoded = Unset

\* a DNS query arrives
ReceiveQuery ==
    /\ query = Unset \/ response # Unset
    /\ Cardinality(sessions) < MaxSessions
    /\ query' \in ServerQueries
    /\ cur_time' \in ServerTimes
    /\ response' = Unset /\ handled' = Unset /\ proofResult' = "none"
    /\ UNCHANGED <<sessions, password, window>>
    /\ UNCHANGED <<xferVars, apiVars, glueVars, headerVars, codecVars, wireVars>>

\* the handshake: parse, check the proof, store a session, respond
HandleEstablish ==
    /\ query # Unset /\ response = Unset
    /\ LET eq == from_query(query, serverRoot) IN
       /\ handled' = [query |-> query, parsed |-> eq, before |-> sessions]
       /\ IF ~eq.ok
          THEN /\ response' = answer_or_drop(
                                establish_response(query, serverRoot, Failure(String(eq.err))))
               /\ UNCHANGED <<sessions, proofResult>>
          ELSE \E outcome \in check_proof(eq.val, password, cur_time, window) :
                 /\ proofResult' = outcome
                 /\ CASE outcome = "panic" ->
                            /\ response' = Panicked
                            /\ UNCHANGED sessions
                      [] outcome = "false" ->
                            /\ response' = answer_or_drop(
                                  establish_response(query, serverRoot, Failure(String("bad proof"))))
                            /\ UNCHANGED sessions
                      [] outcome = "true" ->
                            \E seq \in StartSeqs :
                              LET id == Cardinality(sessions) IN
                              /\ sessions' = sessions \cup
                                    {[id |-> id, seq |-> seq,
                                      query_window |-> eq.val.query_window,
                                      response_window |-> eq.val.response_window,
                                      encoding |-> eq.val.response_encoding]}
                              /\ response' = answer_or_drop(
                                    establish_response(query, serverRoot, Success(id, seq)))
    /\ UNCHANGED <<query, password, cur_time, window>>
    /\ UNCHANGED <<xferVars, apiVars, glueVars, headerVars, codecVars, wireVars>>

ServerNext ==
    \/ ReceiveQuery
    \/ HandleEstablish

ServerSpec == ServerInit /\ [][ServerNext]_vars

(***************************************************************************)
(* WireSpec: the wire coding of EstablishResponse applied to bounded       *)
(* inputs: a response is encoded and handed to establish_response, then a  *)
(* record body arrives and is decoded.                                     *)
(***************************************************************************)
WireResponses ==
    {Success(id, seq) : id \in {0, 258, U16Max}, seq \in {0, 16909060}}
        \cup {Failure(m) : m \in {<<>>, String("bad proof"), <<ReplacementChar>>}}
        \cup {Unknown(code) : code \in 0..255}

\* the bodies that arrive: every tag byte alone and before two bytes, the
\* empty body, and success bodies, whole and cut short
WireBodies ==
    {<<tag>> \o rest : tag \in 0..255, rest \in {<<>>, <<255, 97>>}}
        \cup {<<>>, <<0, 1, 2, 1, 2, 3, 4>>, <<0, 1, 2, 1, 2, 3>>}

\* the query establish_response answers: the domain of tests::query_encoding
WireQuery == Message(to_domain(TestQuery, ServerRoot).val, "TXT", <<>>)

WireInit ==
    /\ XferIdle
    /\ HeaderIdle
    /\ equery = Unset /\ qname = Unset /\ parsed = Unset /\ rebuilt = Unset
    /\ serverRoot = ServerRoot
    /\ password = <<>> /\ cur_time = 0 /\ window = 0 /\ proofResult = "none"
    /\ query = WireQuery /\ sessions = {} /\ response = Unset /\ handled = Unset
    /\ resp \in WireResponses
    /\ body = Unset
    /\ encoded = Unset /\ answered = Unset /\ decoded = Unset

\* dns_encode(&resp) into an empty packet
Encode ==
    /\ encoded = Unset
    /\ encoded' = dns_encode(resp, <<>>)
    /\ UNCHANGED <<resp, body, answered, decoded>>
    /\ UNCHANGED <<xferVars, apiVars, glueVars, headerVars, codecVars, proofVars, serverVars>>

\* establish_response(&query, &host, resp)
Respond ==
    /\ encoded # Unset /\ answered = Unset
    /\ answered' = establish_response(query, serverRoot, resp)
    /\ UNCHANGED <<resp, body, encoded, decoded>>
    /\ UNCHANGED <<xferVars, apiVars, glueVars, headerVars, codecVars, proofVars, serverVars>>

\* a record body arrives
ReceiveBody ==
    /\ answered # Unset /\ body = Unset
    /\ body' \in {Ok(b) : b \in WireBodies \cup (IF encoded.ok THEN {encoded.packet} ELSE {})}
    /\ UNCHANGED <<resp, encoded, answered, decoded>>
    /\ UNCHANGED <<xferVars, apiVars, glueVars, headerVars, codecVars, proofVars, serverVars>>

\* EstablishResponse::dns_decode of the body
Decode ==
    /\ body # Unset /\ decoded = Unset
    /\ decoded' = dns_decode(body.val)
    /\ UNCHANGED <<resp, body, encoded, answered>>
    /\ UNCHANGED <<xferVars, apiVars, glueVars, headerVars, codecVars, proofVars, serverVars>>

WireNext ==
    \/ Encode
    \/ Respond
    \/ ReceiveBody
    \/ Decode

WireSpec == WireInit /\ [][WireNext]_vars

(***************************************************************************)
(* Properties of the handshake.                                            *)
(***************************************************************************)
\* the proof of q is password_proof of the server's password at a time t
\* with cur_time - window <= t < cur_time + window
ProofHolds(q) ==
    \E t \in 0..(TimeMod - 1) :
        /\ cur_time - window <= t /\ t < cur_time + window
        /\ q.proof = password_proof(password, t)

\* C5: check_proof returns true if and only if the proof of the query is
\* password_proof(password, t) for some t with
\* cur_time - window <= t < cur_time + window.
ProofSymmetry ==
    proofResult # "none" =>
        /\ proofResult \in {"true", "false"}
        /\ proofResult = "true" <=> ProofHolds(equery)

\* C19: check_proof computes cur_time - window and cur_time + window without
\* underflow or overflow for every cur_time and window, also for
\* window > cur_time: it never panics, and where a bound leaves the range
\* of the word it still answers for the timestamps of the intended range.
ProofBoundsInRange ==
    proofResult # "none" =>
        /\ proofResult # "panic"
        /\ (cur_time < window \/ cur_time + window >= TimeMod) =>
              proofResult = bool_outcome(ProofHolds(equery))

\* the variant of the response the server sent, read back from the record
\* body of its last answer
AnswerTag ==
    IF response # Unset /\ response.kind = "answer"
    THEN LET m == response.message
             record == m.answers[Len(m.answers)]
             code == <<record.header.record_type, handled.parsed.val.response_encoding>>
         IN dns_decode(decode_body(code, record.body).val).val.tag
    ELSE "none"

\* the registry has a record code for the type of the question and the
\* response encoding the query asks for
HasRecordCode ==
    get_record_code(query.questions[1].record_type,
                    handled.parsed.val.response_encoding).ok

EncodingDeterminable(q) ==
    /\ is_establish_query(q)
    /\ LET first == domain_part_lowercase(q.questions[1].domain[1]) IN
       get_record_code(q.questions[1].record_type, Tail(first)).ok

\* C7: an establish query that fails to parse is answered with a Failure
\* response when its response encoding is determinable from the first label
\* and the record type, and is dropped only when it is not.
FormatErrorAnswered ==
    (handled # Unset /\ is_establish_query(query) /\ ~handled.parsed.ok) =>
        /\ EncodingDeterminable(query) => AnswerTag = "Failure"
        /\ response = Dropped => ~EncodingDeterminable(query)

\* C11: establish_response returns an error and no message whenever the
\* registry has no record code for the record type of the first question
\* and the response encoding the query asks for, for the Success response
\* of a passed proof check and for the Failure response of a failed one.
NoCodeNoResponse ==
    (handled # Unset /\ handled.parsed.ok /\ ~HasRecordCode) =>
        /\ proofResult = "true" => response = Dropped
        /\ proofResult = "false" => response = Dropped
        /\ \A r \in {Success(0, 0), Failure(String("bad proof"))} :
              ~establish_response(query, serverRoot, r).ok

\* a query of a record type without a record code passed the proof check,
\* and its Success response could not be built
NoCodeNoResponseWitness ==
    /\ handled # Unset /\ handled.parsed.ok
    /\ ~HasRecordCode
    /\ proofResult = "true"
    /\ sessions # handled.before
    /\ response = Dropped

\* C9: a successful establish_response is the query with one answer record
\* appended that has the owner name, type and class of the first question
\* and TTL 0, with answer_count 1 and the response flag set; every other
\* header field and the questions are those of the query, which is not
\* modified.
ResponseFrame ==
    (response # Unset /\ response.kind = "answer") =>
        LET m == response.message
            n == Len(query.answers)
            question == query.questions[1]
        IN
        /\ handled.query = query
        /\ Len(m.answers) = n + 1
        /\ SubSeq(m.answers, 1, n) = query.answers
        /\ m.answers[n + 1].header =
              [domain |-> question.domain, record_type |-> question.record_type,
               record_class |-> question.record_class, ttl |-> 0]
        /\ m.header.answer_count = 1
        /\ m.header.is_response
        /\ [m.header EXCEPT !.answer_count = query.header.answer_count,
                            !.is_response = query.header.is_response] = query.header
        /\ m.questions = query.questions

\* a query that carried an answer record and another answer count was
\* answered
ResponseFrameWitness ==
    /\ response # Unset /\ response.kind = "answer"
    /\ query.answers # <<>>
    /\ query.header.answer_count # 1
    /\ ~query.header.is_response

\* C10: encoding Unknown(code) fails and writes nothing, so that
\* establish_response returns no message, for every code; decoding a body
\* whose tag byte is neither 0 nor 1 succeeds, yields Unknown(tag) and
\* leaves nothing of the body unread.
UnknownIsDecodeOnly ==
    /\ (resp # Unset /\ resp.tag = "Unknown") =>
          /\ encoded # Unset => (~encoded.ok /\ encoded.packet = <<>>)
          /\ answered # Unset => ~answered.ok
    /\ (decoded # Unset /\ body.val # <<>> /\ body.val[1] \notin {0, 1}) =>
          /\ decoded.ok
          /\ decoded.val = Unknown(body.val[1])
          /\ decoded.rest = <<>>

\* Unknown(255) could not be encoded nor answered, and a body with tag 255
\* and two more bytes was decoded
UnknownIsDecodeOnlyWitness ==
    /\ resp = Unknown(255)
    /\ encoded # Unset /\ ~encoded.ok
    /\ answered # Unset /\ ~answered.ok
    /\ decoded # Unset /\ decoded.ok
    /\ body.val = <<255, 255, 97>>

(***************************************************************************)
(* Properties of the establish-query coding.                               *)
(***************************************************************************)
IsLowercase(str) == domain_part_lowercase(str) = str

\* the field values a client puts in an EstablishQuery: encoding names in
\* lowercase, a name encoding that is a DNS label, a target host of at least
\* one label
ValidQuery(q) ==
    /\ IsLowercase(q.response_encoding)
    /\ IsLowercase(q.name_encoding) /\ q.name_encoding # <<>>
    /\ q.host # <<>> /\ \A i \in 1..Len(q.host) : q.host[i] # <<>>

\* C4: for every EstablishQuery with valid field values and every server
\* root, to_domain succeeds, from_domain of the built domain returns the
\* query, and to_domain of the parsed fields is the built domain again.
QueryRoundTrip ==
    (equery # Unset /\ ValidQuery(equery)) =>
        /\ qname # Unset => qname.ok
        /\ parsed # Unset => (parsed.ok /\ equery_eq(parsed.val, equery))
        /\ rebuilt # Unset => (rebuilt.ok /\ rebuilt.val = qname.val)

\* a query with the largest numbers and a mixed-case target host went
\* through to_domain, from_domain and to_domain
QueryRoundTripWitness ==
    /\ equery # Unset /\ ValidQuery(equery)
    /\ equery.mtu = U16Max
    /\ equery.proof = [i \in 1..U64Digits |-> 15]
    /\ ~IsLowercase(equery.host[1])
    /\ parsed.ok /\ rebuilt.ok

\* the labels of root are the last labels of d, compared in lowercase
EndsWithRoot(d, root) ==
    /\ Len(root) <= Len(d)
    /\ \A i \in 1..Len(root) :
          domain_part_lowercase(d[Len(d) - Len(root) + i]) = domain_part_lowercase(root[i])

\* C8: from_domain returns an error whenever the question domain does not
\* end with the server root or fewer than 8 labels remain before the root;
\* when it succeeds the target host is the labels from index 7 up to the
\* root suffix and has at least one label.
ParseRejectsShortDomains ==
    parsed # Unset =>
        LET d == qname.val
            n == Len(d) - Len(serverRoot)
        IN
        /\ (~EndsWithRoot(d, serverRoot) \/ n < 8) => ~parsed.ok
        /\ parsed.ok => (Len(parsed.val.host) >= 1 /\ parsed.val.host = SubSeq(d, 8, n))

\* a received domain that ends with the root in another case and has just
\* the seven fixed labels before it was refused
ParseRejectsShortDomainsWitness ==
    /\ equery = Unset /\ parsed # Unset
    /\ EndsWithRoot(qname.val, serverRoot)
    /\ SubSeq(qname.val, Len(qname.val) - Len(serverRoot) + 1, Len(qname.val)) # serverRoot
    /\ Len(qname.val) - Len(serverRoot) = 7
    /\ parsed = Err("not enough labels")

(***************************************************************************)
(* Properties of the transport.                                            *)
(***************************************************************************)
\* C1: under any reordering and duplication of the produced chunks, the
\* bytes returned by the receiver's handle_chunk are at every moment a prefix
\* of the bytes pushed by the sender, and once the send buffer is drained and
\* every produced chunk has been fed in they are all the pushed bytes.
OrderedDelivery ==
    /\ IsPrefix(delivered, pushed)
    /\ (state.sendBuffer = <<>> /\ fed = net) => delivered = pushed

\* all bytes went through although the channel duplicated and reordered
OrderedDeliveryWitness ==
    /\ Len(pushed) = MaxBytes
    /\ state.sendBuffer = <<>> /\ fed = net
    /\ delivered = pushed
    /\ disorder = {"dup", "reorder"}

EndOfStreamFinality ==
    eofSeq # -1 =>
        /\ state.finished
        /\ retAfterEof \subseteq {<<>>}
        /\ \A s \in deliveredSeqs : s <= eofSeq

\* the end of stream was delivered while a later chunk was held, and chunks
\* below, at and above it were fed afterwards
EndOfStreamFinalityWitness ==
    /\ eofSeq # -1
    /\ \E s \in heldAtEof : s > eofSeq
    /\ \E s \in seqsAfterEof : s < eofSeq
    /\ eofSeq \in seqsAfterEof
    /\ \E s \in seqsAfterEof : s > eofSeq

(***************************************************************************)
(* Properties of the session glue.                                         *)
(***************************************************************************)
\* a step in which handle_packet_in handles the packet recorded in call
PacketInStep ==
    /\ call' # Unset /\ call'.op = "handle_packet_in"
    /\ HandlePacket(call'.packet)

\* the calls a step of handle_packet_in made on the bridge
NewCalls == SubSeq(conn'.log, Len(conn.log) + 1, Len(conn'.log))

\* the chunks handle_chunk returns in a step of handle_packet_in: none when
\* it is not called
ReturnedChunks ==
    IF conn.can_send /\ call'.packet.chunk # <<>>
    THEN handle_chunk(handle_ack(state, call'.packet.ack), call'.packet.chunk[1]).out
    ELSE <<>>

\* the chunks of a sequence that come before its first zero-length chunk
BeforeZeroLength(chunks) ==
    LET zero == {i \in 1..Len(chunks) : Len(chunks[i].data) = 0} IN
    IF zero = {} THEN chunks
    ELSE SubSeq(chunks, 1, (CHOOSE i \in zero : \A j \in zero : i <= j) - 1)

\* C13: handle_packet_in always applies the acknowledgment of the packet;
\* when the bridge cannot accept bytes the chunk is not passed to
\* handle_chunk: recvNext, recvBuffer, finished and the next acknowledgment
\* stay as they were and no call is made on the bridge.
ChunkHeldBack ==
    [][PacketInStep =>
          /\ state'.sendBase = handle_ack(state, call'.packet.ack).sendBase
          /\ ~conn.can_send =>
                /\ state'.recvNext = state.recvNext
                /\ state'.recvBuffer = state.recvBuffer
                /\ state'.finished = state.finished
                /\ next_send_ack(state') = next_send_ack(state)
                /\ conn' = conn]_vars

\* a packet whose acknowledgment moved sendBase arrived with the chunk
\* expected next while the bridge could not accept bytes
ChunkHeldBackWitness ==
    /\ call # Unset /\ call.op = "handle_packet_in"
    /\ ~call.ready /\ ~call.finished
    /\ call.packet.chunk # <<>>
    /\ call.packet.chunk[1].sequence = state.recvNext
    /\ call.packet.ack > 0 /\ state.sendBase = call.packet.ack
    /\ conn.log = <<>>

\* C14: in one handle_packet_in call send is called at most once, with the
\* non-empty concatenation of the data of the chunks handle_chunk returned
\* before the first zero-length chunk; send_finished is called if and only
\* if a zero-length chunk was returned, and after the send of that call.
OneSendPerPacket ==
    [][PacketInStep =>
          LET buffer == Flatten(BeforeZeroLength(ReturnedChunks))
              sends == {i \in 1..Len(NewCalls) : NewCalls[i].op = "send"}
              ends == {i \in 1..Len(NewCalls) : NewCalls[i].op = "send_finished"}
          IN
          /\ IsPrefix(conn.log, conn'.log)
          /\ Cardinality(sends) <= 1 /\ Cardinality(ends) <= 1
          /\ sends \cup ends = 1..Len(NewCalls)
          /\ \A i \in sends : NewCalls[i].data # <<>> /\ NewCalls[i].data = buffer
          /\ sends # {} <=> buffer # <<>>
          /\ ends # {} <=> \E i \in 1..Len(ReturnedChunks) : Len(ReturnedChunks[i].data) = 0
          /\ \A i \in sends, j \in ends : i < j]_vars

\* one call sent the data of two chunks at once and then signalled the end
\* of the stream
OneSendPerPacketWitness ==
    /\ call # Unset /\ call.op = "handle_packet_in"
    /\ call.ready /\ ~call.finished
    /\ call.packet.chunk # <<>> /\ call.packet.chunk[1].sequence = 0
    /\ conn.log = << [op |-> "send", data |-> <<1, 1>>],
                     [op |-> "send_finished", data |-> <<>>] >>

\* C15: next_packet_out calls push_send_buffer only where
\* send_buffer_space() > 0, pushes every block it got from recv, stops
\* pulling only when the space is 0 or recv returns nothing, and returns the
\* packet of next_send_ack() and of next_send_chunk() evaluated after the
\* pushes.
PullThenPacket ==
    [][NextPacketOut =>
          LET n == Len(conn.inbox) - Len(conn'.inbox)
              pulled == SubSeq(conn.inbox, 1, n)
              pushedTo == [state EXCEPT !.sendBuffer = @ \o BlockData(pulled)]
          IN
          /\ n >= 0
          /\ conn' = [conn EXCEPT !.inbox = SubSeq(@, n + 1, Len(@))]
          /\ send_buffer_space(state) <= 0 => n = 0
          /\ send_buffer_space(state) > 0 => conn'.inbox = <<>>
          /\ call'.packet = Packet(next_send_ack(pushedTo), next_send_chunk(pushedTo).chunk)
          /\ state' = next_send_chunk(pushedTo).state]_vars

\* one call pulled two blocks and returned them in one chunk, with an
\* acknowledgment of chunks received
PullThenPacketWitness ==
    /\ call # Unset /\ call.op = "next_packet_out"
    /\ call.packet.chunk # <<>>
    /\ call.packet.chunk[1].data = <<1, 2>>
    /\ call.packet.ack > 0
    /\ conn.inbox = <<>>

\* C20: over the life of a session send_finished is called at most once
\* on the bridge, and send is never called after it.
FinishedOnce ==
    \A i \in 1..Len(conn.log) :
        conn.log[i].op = "send_finished" => i = Len(conn.log)

\* after the end of the stream was signalled, a data chunk not yet seen
\* arrived while the bridge accepted bytes
FinishedOnceWitness ==
    /\ call # Unset /\ call.op = "handle_packet_in"
    /\ call.ready /\ call.finished
    /\ call.packet.chunk # <<>>
    /\ Len(call.packet.chunk[1].data) > 0
    /\ call.packet.chunk[1].sequence >= state.recvNext
    /\ Len(conn.log) = 2
    /\ conn.log[2].op = "send_finished"

(***************************************************************************)
(* Properties of the receive side.                                         *)
(***************************************************************************)
\* C16: a chunk with sequence < recvNext is discarded: handle_chunk returns
\* an empty sequence and leaves recvNext and recvBuffer as they were; and
\* however often a chunk is fed, no sequence number is returned twice.
DuplicateDiscarded ==
    call # Unset =>
        /\ call.chunk.sequence < call.pre.recvNext =>
              /\ call.out = <<>>
              /\ state.recvNext = call.pre.recvNext
              /\ state.recvBuffer = call.pre.recvBuffer
        /\ \A i, j \in 1..Len(returned) : i < j => returned[i] < returned[j]

\* a chunk that had been returned was fed again while a later chunk was
\* held, and nothing was returned
DuplicateDiscardedWitness ==
    /\ call # Unset
    /\ ~call.pre.finished
    /\ call.chunk.sequence < call.pre.recvNext
    /\ Len(call.chunk.data) > 0
    /\ \E i \in 1..Len(returned) : returned[i] = call.chunk.sequence
    /\ call.pre.recvBuffer # {}
    /\ call.out = <<>>

\* the length of the maximal gap-free run of buffered chunks that starts
\* at a sequence number
RunLength(buf, from) ==
    CHOOSE k \in 0..Cardinality(buf) :
        /\ \A i \in 0..(k - 1) : buffer_has(buf, from + i)
        /\ ~buffer_has(buf, from + k)

MaximalRun(buf, from) == [i \in 1..RunLength(buf, from) |-> buffer_get(buf, from + i - 1)]

\* the chunks of a sequence up to and including its first zero-length chunk
UpToZeroLength(chunks) ==
    LET zero == {i \in 1..Len(chunks) : Len(chunks[i].data) = 0} IN
    IF zero = {} THEN chunks
    ELSE SubSeq(chunks, 1, CHOOSE i \in zero : \A j \in zero : i <= j)

\* C17 as stated: for a chunk with sequence >= recvNext handle_chunk
\* returns exactly the maximal gap-free run of buffered chunks starting at
\* the old recvNext, and recvNext is the old recvNext plus the number of
\* chunks returned; a chunk that leaves a gap returns nothing; the
\* acknowledgment never decreases.
ReturnsMaximalRun ==
    call # Unset =>
        /\ call.chunk.sequence >= call.pre.recvNext =>
              /\ call.out = MaximalRun(buffer_store(call.pre.recvBuffer, call.chunk),
                                       call.pre.recvNext)
              /\ state.recvNext = call.pre.recvNext + Len(call.out)
        /\ next_send_ack(state) >= next_send_ack(call.pre)

\* C17 as amended: before the end of the stream, for a chunk with sequence
\* >= recvNext handle_chunk returns the maximal gap-free run of buffered
\* chunks starting at the old recvNext, up to and including its first
\* zero-length chunk; after the end of the stream it returns nothing; in
\* both cases recvNext is the old recvNext plus the number of chunks
\* returned, and the acknowledgment never decreases.
ReturnsRunUpToEof ==
    call # Unset =>
        /\ call.chunk.sequence >= call.pre.recvNext =>
              /\ call.out =
                    IF call.pre.finished THEN <<>>
                    ELSE UpToZeroLength(
                            MaximalRun(buffer_store(call.pre.recvBuffer, call.chunk),
                                       call.pre.recvNext))
              /\ state.recvNext = call.pre.recvNext + Len(call.out)
              /\ \A i \in 1..Len(call.out) :
                    call.out[i].sequence = call.pre.recvNext + i - 1
        /\ next_send_ack(state) >= next_send_ack(call.pre)

\* the chunk that filled the gap was returned with the end of the stream
\* behind it, and a chunk held behind the end of the stream was not
ReturnsRunUpToEofWitness ==
    /\ call # Unset
    /\ call.chunk.sequence = call.pre.recvNext
    /\ Len(call.out) = 2
    /\ Len(call.out[1].data) > 0 /\ Len(call.out[2].data) = 0
    /\ \E b \in call.pre.recvBuffer : b.sequence = call.pre.recvNext + 2
    /\ state.finished

\* C18: sendBase never decreases and never exceeds sendNext, whatever
\* acknowledgment handle_ack is given: one below sendBase leaves sendBase as
\* it was, and one above sendNext does not move sendBase past sendNext.
SendBaseWithinSent ==
    [][/\ state'.sendBase >= state.sendBase
       /\ state'.sendBase <= state'.sendNext]_vars

\* the bytes given to send on a bridge, in order
SentBytes(c) == Flatten(SelectSeq(c.log, LAMBDA e : e.op = "send"))

\* C12: with a client that keeps polling and a channel that loses, delays,
\* duplicates and reorders packets but delivers again and again, every byte
\* handed to the sender's bridge is eventually delivered to the receiver's
\* bridge and the end of the stream is eventually signalled by
\* send_finished.
EventualDelivery ==
    <>(/\ SentBytes(peerConn) = pushed
       /\ \E i \in 1..Len(peerConn.log) : peerConn.log[i].op = "send_finished")

(***************************************************************************)
(* DNS header flag coding (dns_proto/header.rs).  A value of Opcode or of  *)
(* ResponseCode is a variant with a tag; Unknown carries a u8.             *)
(***************************************************************************)

\* the largest u8, the payload of Opcode::Unknown and ResponseCode::Unknown
U8Max == 255

\* the width of the flags word of a header
FlagsWidth == 16

Variant(name) == [tag |-> name]

\* Opcode::Unknown(x), ResponseCode::Unknown(x)
UnknownCode(x) == [tag |-> "Unknown", code |-> x]

\* the named variants of Opcode with the numbers Opcode::encode gives them
OpcodeTable ==
    { <<"Query", 0>>, <<"IQuery", 1>>, <<"Status", 2>>, <<"Notify", 4>>, <<"Update", 5>> }

\* the named variants of ResponseCode with the numbers ResponseCode::encode
\* gives them
ResponseCodeTable ==
    { <<"NoError", 0>>, <<"FormatError", 1>>, <<"ServerFailure", 2>>,
      <<"NXDomain", 3>>, <<"NotImplemented", 4>>, <<"Refused", 5>>,
      <<"YXDomain", 6>>, <<"YXRRSet", 7>>, <<"NXRRSet", 8>>,
      <<"NotAuth", 9>>, <<"NotZone", 10>> }

\* every value of Opcode
Opcodes ==
    {Variant(e[1]) : e \in OpcodeTable} \cup {UnknownCode(x) : x \in 0..U8Max}

\* every value of ResponseCode
ResponseCodes ==
    {Variant(e[1]) : e \in ResponseCodeTable} \cup {UnknownCode(x) : x \in 0..U8Max}

\* the match of encode: a named variant gives its number, Unknown(x) gives x
variant_encode(table, v) ==
    IF v.tag = "Unknown" THEN v.code
    ELSE (CHOOSE e \in table : e[1] = v.tag)[2]

\* the match of decode: a number of the table gives its variant, any other
\* number gives Unknown(value as u8)
variant_decode(table, value) ==
    IF \E e \in table : e[2] = value
    THEN Variant((CHOOSE e \in table : e[2] = value)[1])
    ELSE UnknownCode(value % (U8Max + 1))

\* Opcode::encode
Opcode_encode(op) == variant_encode(OpcodeTable, op)

\* Opcode::decode
Opcode_decode(value) == variant_decode(OpcodeTable, value)

\* ResponseCode::encode
ResponseCode_encode(rc) == variant_encode(ResponseCodeTable, rc)

\* ResponseCode::decode
ResponseCode_decode(value) == variant_decode(ResponseCodeTable, value)

RECURSIVE BitOr(_, _)
\* a | b on unsigned integers
BitOr(a, b) ==
    IF a = 0 THEN b
    ELSE IF b = 0 THEN a
    ELSE 2 * BitOr(a \div 2, b \div 2) + (IF a % 2 = 1 \/ b % 2 = 1 THEN 1 ELSE 0)

\* BitWriter is used by the header and defined elsewhere.  What it does with
\* a value wider than its field, and what fits measures, decides whether the
\* assertion of the header can fail, so a writer is one of:
\*   "masked"   keeps the low bits of the value, fits compares the value
\*   "value"    ors the whole value in, fits compares the value
\*   "counted"  ors the whole value in, fits compares the number of bits written
BitWriterKinds == {"masked", "value", "counted"}

\* BitWriter::new
BitWriter == [value |-> 0, bits |-> 0]

\* BitWriter::write_bits
write_bits(w, value, bits, kind) ==
    [value |-> BitOr(w.value * 2^bits,
                     IF kind = "masked" THEN value % 2^bits ELSE value),
     bits |-> w.bits + bits]

\* BitWriter::write_bit
write_bit(w, bit, kind) == write_bits(w, IF bit THEN 1 ELSE 0, 1, kind)

\* BitWriter::fits::<u16>
fits(w, width, kind) ==
    IF kind = "counted" THEN w.bits <= width ELSE w.value < 2^width

\* the flags writer of a header after the writes of Header::dns_encode
HeaderFlags(h, kind) ==
    LET w1 == write_bit(BitWriter, h.is_response, kind)
        w2 == write_bits(w1, Opcode_encode(h.opcode), 4, kind)
        w3 == write_bit(w2, h.authoritative, kind)
        w4 == write_bit(w3, h.truncated, kind)
        w5 == write_bit(w4, h.recursion_desired, kind)
        w6 == write_bit(w5, h.recursion_available, kind)
        w7 == write_bits(w6, 0, 3, kind)
    IN  write_bits(w7, ResponseCode_encode(h.response_code), 4, kind)

\* the panic of assert!(flags.fits::<u16>())
FlagsPanic == Err("assertion failed: flags.fits::<u16>()")

\* Header::dns_encode: the bytes written, or the panic of the assertion
Header_encode(h, kind) ==
    LET flags == HeaderFlags(h, kind)
    IN  IF ~fits(flags, FlagsWidth, kind) THEN FlagsPanic
        ELSE Ok(be_bytes(h.identifier, 2)
                \o be_bytes(flags.value % 2^FlagsWidth, 2)
                \o be_bytes(h.question_count, 2) \o be_bytes(h.answer_count, 2)
                \o be_bytes(h.authority_count, 2) \o be_bytes(h.additional_count, 2))

\* a header with the given codes and flags
Header(opcode, response_code, is_response, authoritative) ==
    [identifier |-> 7, is_response |-> is_response, opcode |-> opcode,
     authoritative |-> authoritative, truncated |-> FALSE,
     recursion_desired |-> TRUE, recursion_available |-> FALSE,
     response_code |-> response_code,
     question_count |-> 1, answer_count |-> 0,
     authority_count |-> 0, additional_count |-> 0]

\* the codes a header is given together with every value of the other code
CodeSample == {Variant("Query"), UnknownCode(15), UnknownCode(U8Max)}
RcodeSample == {Variant("NoError"), UnknownCode(15), UnknownCode(U8Max)}

\* the headers coded: every Opcode and every ResponseCode occurs
Headers ==
    {Header(c[1], c[2], r, a) :
        c \in (Opcodes \X RcodeSample) \cup (CodeSample \X ResponseCodes),
        r \in BOOLEAN, a \in BOOLEAN}

HeaderInit ==
    /\ XferIdle
    /\ equery = Unset /\ serverRoot = <<>> /\ qname = Unset
    /\ parsed = Unset /\ rebuilt = Unset
    /\ password = <<>> /\ cur_time = 0 /\ window = 0 /\ proofResult = "none"
    /\ query = Unset /\ sessions = {} /\ response = Unset /\ handled = Unset
    /\ resp = Unset /\ body = Unset
    /\ encoded = Unset /\ answered = Unset /\ decoded = Unset
    /\ hdr \in Headers
    /\ hdrFlags = Unset /\ opcodeBack = Unset /\ rcodeBack = Unset

HeaderFrame ==
    UNCHANGED <<xferVars, apiVars, glueVars, codecVars, proofVars, serverVars, wireVars>>

\* Opcode::decode(hdr.opcode.encode())
RoundTripOpcode ==
    /\ opcodeBack = Unset
    /\ opcodeBack' = Opcode_decode(Opcode_encode(hdr.opcode))
    /\ UNCHANGED <<hdr, hdrFlags, rcodeBack>>
    /\ HeaderFrame

\* ResponseCode::decode(hdr.response_code.encode())
RoundTripResponseCode ==
    /\ rcodeBack = Unset
    /\ rcodeBack' = ResponseCode_decode(ResponseCode_encode(hdr.response_code))
    /\ UNCHANGED <<hdr, hdrFlags, opcodeBack>>
    /\ HeaderFrame

\* hdr.dns_encode(packet)
EncodeHeader ==
    /\ hdrFlags = Unset
    /\ \E kind \in BitWriterKinds : hdrFlags' = Header_encode(hdr, kind)
    /\ UNCHANGED <<hdr, opcodeBack, rcodeBack>>
    /\ HeaderFrame

HeaderNext == RoundTripOpcode \/ RoundTripResponseCode \/ EncodeHeader

HeaderSpec == HeaderInit /\ [][HeaderNext]_vars

\* C21: the header flag coding round-trips: for every Opcode and every
\* ResponseCode, Unknown(x) for every x in 0..255 included, decoding the
\* encoded value gives the value back, and encoding a Header never fails the
\* assertion that the flags word fits in 16 bits.
HeaderCodesRoundTrip ==
    /\ opcodeBack # Unset => opcodeBack = hdr.opcode
    /\ rcodeBack # Unset => rcodeBack = hdr.response_code
    /\ hdrFlags # Unset => hdrFlags # FlagsPanic

\* the extent of the failure: a code comes back changed exactly when it is
\* Unknown(x) with x the number of a named variant
NamedNumber(table, v) ==
    v.tag = "Unknown" /\ \E e \in table : e[2] = v.code

\* the assertion of the header failed
AssertionFailed == hdrFlags = FlagsPanic

RoundTripExtent ==
    /\ opcodeBack # Unset =>
          (opcodeBack # hdr.opcode <=> NamedNumber(OpcodeTable, hdr.opcode))
    /\ rcodeBack # Unset =>
          (rcodeBack # hdr.response_code
              <=> NamedNumber(ResponseCodeTable, hdr.response_code))
    /\ AssertionFailed =>
          \/ hdr.opcode.tag = "Unknown" /\ hdr.opcode.code >= 2^4
          \/ hdr.response_code.tag = "Unknown" /\ hdr.response_code.code >= 2^4

====
